---- MODULE Spec2Model ----
(***************************************************************************)
(* Website status checker: the staged probe of POST /api/check-website     *)
(* (server/index.js) and the dashboard that consumes its stream            *)
(* (StatusDashboard, Home).                                                *)
(*                                                                         *)
(* A URL is a sequence of tokens, <<"https", "://", "example.com">>, so    *)
(* that the scheme tests of the code (a case-insensitive regular           *)
(* expression in ensureProtocol, a case-sensitive startsWith("https") in   *)
(* the handler) are computed and not assumed.  A message text is a         *)
(* sequence of pieces, <<"Connection failed: ", "connect ECONNREFUSED">>;  *)
(* the message of an Error is the sequence of its lines.  A stage without  *)
(* durationMs has durationMs = -1, without errorDetails has <<>>.          *)
(***************************************************************************)
EXTENDS Integers, Sequences, FiniteSets, TLC

\* Longest time, in clock units, that one awaited operation takes.
MaxDur == 1
\* Number of probe requests one behaviour issues.
MaxRuns == 3
\* Number of times the Stop button is pressed in one behaviour.
MaxStops == 2

Runs == 1..MaxRuns

VARIABLES
    srv,        \* srv[r]: the handler activation of request r on the server
    network,    \* what the target does: the longest wait, the operations
                \* that succeed, the errors of each, whether a body breaks off
    component,  \* which StatusDashboard is mounted: "cancellable" or "plain"
    home,       \* Home: url, isChecking, checkHistory
    ui,         \* StatusDashboard: its useState values
    readerRef,  \* readerRef.current: the run whose reader it holds, 0 for null
    abortControllerRef, \* abortControllerRef.current: the run it belongs to, 0
    deps,       \* [isChecking, url] as the effect last saw them
    cl,         \* cl[r]: the activation of performServerChecks for run r
    storage,    \* localStorage "websiteCheckHistory"
    nruns,      \* number of runs started so far
    nstops      \* number of calls of handleStopChecks so far

clientVars == <<component, home, ui, readerRef, abortControllerRef, deps, cl,
                storage, nruns, nstops>>
vars == <<srv, network, clientVars>>

-----------------------------------------------------------------------------
(* Stage model *)

StageIds == <<"dns", "connection", "tls", "firstByte", "download">>
StageNames == <<"DNS Resolution", "Connection Establishment", "TLS Handshake",
                "First Byte Received", "Complete Download">>
NStages == Len(StageIds)

NoDuration == 0 - 1

IdleStage(i) ==
    [id |-> StageIds[i], name |-> StageNames[i], status |-> "idle",
     timestamp |-> FALSE, durationMs |-> NoDuration, errorDetails |-> <<>>]

\* const results = { stages: [...], isComplete: false, ... }; checkLocation
\* and checkIP, which nothing reads, are left out.
NewResults ==
    [stages |-> [i \in 1..NStages |-> IdleStage(i)],
     isComplete |-> FALSE, isSuccess |-> FALSE, totalResponseTime |-> 0,
     errorMessage |-> <<>>]

\* s.status === "success" || s.status === "error"
Settled(st) == st.status \in {"success", "error"}

\* Loading with the index of the stage before.
LoadingPrevious(res, i) ==
    [res EXCEPT !.stages[IF i > 1 THEN i - 1 ELSE 1].status = "loading"]

\* results.stages[i].status = "loading"
Loading(res, i) == [res EXCEPT !.stages[i].status = "loading"]

\* Succeed without the timestamp.
SucceedNoTimestamp(res, i, d) ==
    [res EXCEPT !.stages[i].status = "success",
                !.stages[i].durationMs = d]

\* status = "success", timestamp = ..., durationMs = d
Succeed(res, i, d) ==
    [res EXCEPT !.stages[i].status = "success",
                !.stages[i].timestamp = TRUE,
                !.stages[i].durationMs = d]

\* StageError without status = "error".
StageErrorNoStatus(res, i, d, msg) ==
    [res EXCEPT !.stages[i].timestamp = TRUE,
                !.stages[i].durationMs = d,
                !.stages[i].errorDetails = msg]

\* StageError without errorDetails = msg.
StageErrorNoDetails(res, i, d, msg) ==
    [res EXCEPT !.stages[i].status = "error",
                !.stages[i].timestamp = TRUE,
                !.stages[i].durationMs = d]

\* status = "error", timestamp = ..., durationMs = d, errorDetails = msg
StageError(res, i, d, msg) ==
    [res EXCEPT !.stages[i].status = "error",
                !.stages[i].timestamp = TRUE,
                !.stages[i].durationMs = d,
                !.stages[i].errorDetails = msg]

\* SkipTls without durationMs = 0.
SkipTlsNoDuration(res) ==
    [res EXCEPT !.stages[3].status = "success",
                !.stages[3].timestamp = TRUE,
                !.stages[3].errorDetails = <<"Skipped (HTTP)">>]

\* The TLS stage of an http target: success, 0 ms, "Skipped (HTTP)".
SkipTls(res) ==
    [res EXCEPT !.stages[3].status = "success",
                !.stages[3].timestamp = TRUE,
                !.stages[3].durationMs = 0,
                !.stages[3].errorDetails = <<"Skipped (HTTP)">>]

\* RunFailed without results.errorMessage = errorMsg.
RunFailedNoMessage(res, cum, msg) ==
    [res EXCEPT !.isComplete = TRUE, !.isSuccess = FALSE,
                !.totalResponseTime = cum]

\* isComplete = true; isSuccess = false; totalResponseTime = cum; errorMessage = msg
RunFailed(res, cum, msg) ==
    [res EXCEPT !.isComplete = TRUE, !.isSuccess = FALSE,
                !.totalResponseTime = cum, !.errorMessage = msg]

\* RunSucceeded without results.totalResponseTime = cumulativeTime.
RunSucceededNoTotal(res, cum) ==
    [res EXCEPT !.isComplete = TRUE, !.isSuccess = TRUE]

\* isComplete = true; isSuccess = true; totalResponseTime = cum
RunSucceeded(res, cum) ==
    [res EXCEPT !.isComplete = TRUE, !.isSuccess = TRUE,
                !.totalResponseTime = cum]

\* JSON.stringify({ type, data: results }): a copy of results as they are now.
Message(type, res) == [type |-> type, data |-> res]

-----------------------------------------------------------------------------
(* URLs *)

Lower(tok) ==
    CASE tok = "HTTP" -> "http"
      [] tok = "HTTPS" -> "https"
      [] OTHER -> tok

\* /^https?:\/\//i.test(url)
HasProtocol(url) ==
    /\ Len(url) >= 2
    /\ Lower(url[1]) \in {"http", "https"}
    /\ url[2] = "://"

\* ensureProtocol with http:// for a URL without a protocol.
ensureProtocolHttp(url) ==
    IF url = <<>> THEN <<>>
    ELSE IF ~HasProtocol(url) THEN <<"http", "://">> \o url
    ELSE url

\* if (!url) return ""; if (!/^https?:\/\//i.test(url)) return `https://${url}`
ensureProtocol(url) ==
    IF url = <<>> THEN <<>>
    ELSE IF ~HasProtocol(url) THEN <<"https", "://">> \o url
    ELSE url

\* processedUrl.startsWith("https"): case-sensitive
StartsWithHttps(url) == Len(url) >= 1 /\ url[1] = "https"

ValidHosts == {"example.com", "other.org", "nonexistent.invalid"}

\* The host names that getaddrinfo finds an address for.
ResolvableHosts == {"example.com", "other.org"}

\* The lookup of the host of a URL that parses succeeds.
Resolvable(url) == url[3] \in ResolvableHosts

\* new URL(url) does not throw.
ParsesAsUrl(url) ==
    /\ Len(url) = 3
    /\ Lower(url[1]) \in {"http", "https"}
    /\ url[2] = "://"
    /\ url[3] \in ValidHosts

\* protocol.request(url, ...) does not throw: the URL parses and its scheme
\* (lower-cased by the parser) is the one of the module that was picked.
Requestable(url, secure) ==
    /\ ParsesAsUrl(url)
    /\ Lower(url[1]) = (IF secure THEN "https" ELSE "http")

Targets ==
    { <<"example.com">>,
      <<"http", "://", "example.com">>,
      <<"HTTP", "://", "example.com">>,
      <<"HTTPS", "://", "example.com">>,
      <<"http", "://", "nonexistent.invalid">>,
      <<"bad host">>,
      <<>> }

-----------------------------------------------------------------------------
(* Errors of the network operations *)

Err(code, lines) == [code |-> code, message |-> lines]

\* Errors that the 'error' event of a request carries.
TransportErrors ==
    { Err("ETIMEDOUT", <<"connect ETIMEDOUT 93.184.216.34:443">>),
      Err("ECONNREFUSED", <<"connect ECONNREFUSED", "    at TCPConnectWrap">>),
      Err("", <<>>) }

InvalidUrlError == Err("ERR_INVALID_URL", <<"Invalid URL">>)
\* The 'error' of a request whose host name has no address.
NotFoundError == Err("ENOTFOUND", <<"getaddrinfo ENOTFOUND nonexistent.invalid">>)
ProtocolError ==
    Err("ERR_INVALID_PROTOCOL", <<"Protocol \"https:\" not supported. Expected \"http:\"">>)

\* new Error() without the text.
TimeoutErrorNoText(text) == Err("", <<>>)

\* new Error(text): the rejection of a 'timeout' handler
TimeoutError(text) == Err("", <<text>>)

\* error.message.split("\n")[0]
FirstLine(e) == e.message[1]

TimeoutTexts ==
    {"Connection timed out", "TLS handshake timed out", "Request timed out"}

\* Every error a request can fail with.
AllErrors ==
    TransportErrors \cup {InvalidUrlError, ProtocolError, NotFoundError}
        \cup {TimeoutError(text) : text \in TimeoutTexts}

\* The requests of a probe: the HEAD of the connection stage, the HEAD of the
\* TLS stage, the GET.
NetOps == {"head", "tls", "get"}

\* What request op for url through the picked module can fail with.
RequestErrors(op, url, secure, timeoutText) ==
    IF Requestable(url, secure) /\ ~Resolvable(url) THEN {NotFoundError}
    ELSE IF Requestable(url, secure)
    THEN (TransportErrors \cup {TimeoutError(timeoutText)}) \cap network.errors[op]
    ELSE IF ParsesAsUrl(url) THEN {ProtocolError}
    ELSE {InvalidUrlError}

ConnectionErrorMsg(e) ==
    IF e.code \in {"ECONNABORTED", "ETIMEDOUT"} THEN <<"Connection timed out">>
    ELSE IF e.message # <<>> THEN <<"Connection failed: ", FirstLine(e)>>
    ELSE <<"Connection failed - network may be down">>

TlsErrorMsg(e) ==
    IF e.message # <<>> THEN <<"TLS handshake failed: ", FirstLine(e)>>
    ELSE <<"TLS handshake failed">>

RequestErrorMsg(e) ==
    IF e.code \in {"ECONNABORTED", "ETIMEDOUT"} THEN <<"Request timed out">>
    ELSE IF e.message # <<>> THEN <<FirstLine(e)>>
    ELSE <<"Request failed">>

-----------------------------------------------------------------------------
(* The server: app.post("/api/check-website") *)

\* A request that has not reached the server.
NoRequest ==
    [pc |-> "none", url |-> <<>>, processedUrl |-> <<>>, statusCode |-> 0,
     results |-> NewResults, cumulativeTime |-> 0,
     sinceFb |-> 0, receivedFirstByte |-> FALSE, socket |-> "open",
     out |-> <<>>, ended |-> FALSE]

\* The request body { url } has arrived; the handler has not run yet.
Request(url) == [NoRequest EXCEPT !.pc = "request", !.url = url]

\* Mutate results to res and res.write(JSON.stringify({ type, data: results })).
Emit(s, type, res) ==
    [s EXCEPT !.results = res, !.out = Append(@, Message(type, res))]

\* res.write(JSON.stringify({ type, data: results })) of the results as they are.
Write(s, type) == Emit(s, type, s.results)

\* res.end(): the handler is over.
End(s) == [s EXCEPT !.ended = TRUE, !.pc = "done"]

Secure(s) == StartsWithHttps(s.processedUrl)

\* if (!url) return res.status(400).json(...); otherwise await getLocationFromIP()
SrvHandle(r) ==
    /\ srv[r].pc = "request"
    /\ srv' = [srv EXCEPT ![r] =
                 IF @.url = <<>>
                 THEN [@ EXCEPT !.pc = "rejected", !.ended = TRUE]
                 ELSE [@ EXCEPT !.pc = "location"]]
    /\ UNCHANGED <<network, clientVars>>

\* getLocationFromIP() settles: with the location (ok) or, the lookup having
\* failed, with "Unknown location".  The results are created, the DNS stage
\* goes loading and the first update is written.
SrvLocation(r, ok) ==
    /\ srv[r].pc = "location"
    /\ ok \in BOOLEAN
    /\ LET s0 == [srv[r] EXCEPT !.processedUrl = ensureProtocol(srv[r].url),
                                !.results = NewResults,
                                !.cumulativeTime = 0]
           s1 == Emit(s0, "update", Loading(s0.results, 1))
       IN  srv' = [srv EXCEPT ![r] = [s1 EXCEPT !.pc = "dns"]]
    /\ UNCHANGED <<network, clientVars>>

\* The 300 ms timer fires after d: DNS success, then the connection stage
\* goes loading and the HEAD request is issued.
SrvDnsDone(r, d) ==
    /\ srv[r].pc = "dns"
    /\ LET s0 == [srv[r] EXCEPT !.cumulativeTime = @ + d]
           s1 == Emit(s0, "update", Succeed(s0.results, 1, d))
           s2 == Emit(s1, "update", Loading(s1.results, 2))
       IN  srv' = [srv EXCEPT ![r] = [s2 EXCEPT !.pc = "conn"]]
    /\ UNCHANGED <<network, clientVars>>

\* After the connection stage: the TLS stage of an https target goes loading,
\* the one of an http target is skipped and the first-byte stage goes loading.
EnterTls(s) ==
    IF Secure(s)
    THEN [Emit(s, "update", Loading(s.results, 3)) EXCEPT !.pc = "tls"]
    ELSE LET s1 == Emit(s, "update", SkipTls(s.results))
             s2 == Emit(s1, "update", Loading(s1.results, 4))
         IN  [s2 EXCEPT !.pc = "fb", !.sinceFb = 0]

\* The status codes a target answers with.
StatusCodes == {200, 404, 500}

\* The response callback of the connection stage's HEAD request, d after the
\* request, for a response with status code: resolve(response).
OnHeadResponse(s, d, code) ==
    LET s0 == [s EXCEPT !.cumulativeTime = @ + d, !.statusCode = code]
        s1 == Emit(s0, "update", Succeed(s0.results, 2, d))
    IN  EnterTls(s1)

\* The HEAD request gets its response after d.
SrvConnOk(r, d) ==
    /\ srv[r].pc = "conn"
    /\ Requestable(srv[r].processedUrl, Secure(srv[r]))
    /\ Resolvable(srv[r].processedUrl)
    /\ "head" \in network.ok
    /\ \E code \in network.statuses :
          srv' = [srv EXCEPT ![r] = OnHeadResponse(@, d, code)]
    /\ UNCHANGED <<network, clientVars>>

\* FailStage without its return: the handler goes on to the next stage.
FailStageNoReturn(s, i, d, msg) ==
    LET s0 == [s EXCEPT !.cumulativeTime = @ + d]
        res == RunFailed(StageError(s0.results, i, d, msg), s0.cumulativeTime, msg)
        s1 == Emit(s0, "final", res)
    IN  End(Emit(s1, "update", Loading(s1.results, i + 1)))

\* The catch of stage i: the stage ends error, the run is failed, the final
\* message is written, res.end(); return.
FailStage(s, i, d, msg) ==
    LET s0 == [s EXCEPT !.cumulativeTime = @ + d]
        res == RunFailed(StageError(s0.results, i, d, msg), s0.cumulativeTime, msg)
    IN  End(Emit(s0, "final", res))

\* The HEAD request fails with e after d ('error', or 'timeout' and destroy).
SrvConnFail(r, d, e) ==
    /\ srv[r].pc = "conn"
    /\ e \in RequestErrors("head", srv[r].processedUrl, Secure(srv[r]),
                           "Connection timed out")
    /\ srv' = [srv EXCEPT ![r] = FailStage(@, 2, d, ConnectionErrorMsg(e))]
    /\ UNCHANGED <<network, clientVars>>

\* The response callback of the TLS stage's HEAD request: resolve(response).
OnTlsResponse(s, d, code) ==
    LET s0 == [s EXCEPT !.cumulativeTime = @ + d, !.statusCode = code]
        s1 == Emit(s0, "update", Succeed(s0.results, 3, d))
        s2 == Emit(s1, "update", Loading(s1.results, 4))
    IN  [s2 EXCEPT !.pc = "fb", !.sinceFb = 0]

\* The second HEAD request (https only) gets its response after d.
SrvTlsOk(r, d) ==
    /\ srv[r].pc = "tls"
    /\ "tls" \in network.ok
    /\ \E code \in network.statuses :
          srv' = [srv EXCEPT ![r] = OnTlsResponse(@, d, code)]
    /\ UNCHANGED <<network, clientVars>>

SrvTlsFail(r, d, e) ==
    /\ srv[r].pc = "tls"
    /\ e \in RequestErrors("tls", srv[r].processedUrl, TRUE, "TLS handshake timed out")
    /\ srv' = [srv EXCEPT ![r] = FailStage(@, 3, d, TlsErrorMsg(e))]
    /\ UNCHANGED <<network, clientVars>>

\* The response callback of a GET request that rejects a status of 400 and
\* above, as a client with a validateStatus would.
OnGetResponseChecksStatus(s, d, code) ==
    IF code >= 400
    THEN LET s0 == [s EXCEPT !.sinceFb = @ + d, !.statusCode = code]
             msg == <<"Request failed with status code">>
             s1 == [s0 EXCEPT !.cumulativeTime = @ + s0.sinceFb]
             s2 == [s1 EXCEPT !.results =
                       RunFailed(StageError(@, 4, s0.sinceFb, msg),
                                 s1.cumulativeTime, msg)]
         IN  End(Write(s2, "final"))
    ELSE [s EXCEPT !.pc = "body", !.sinceFb = @ + d, !.statusCode = code]

\* The response callback of the GET request, whatever the status code.
OnGetResponse(s, d, code) ==
    [s EXCEPT !.pc = "body", !.sinceFb = @ + d, !.statusCode = code]

\* The response callback of the GET request runs after d: the 'data' and 'end'
\* handlers are attached.
SrvResponse(r, d) ==
    /\ srv[r].pc = "fb"
    /\ "get" \in network.ok
    /\ \E code \in network.statuses :
          srv' = [srv EXCEPT ![r] = OnGetResponse(@, d, code)]
    /\ UNCHANGED <<network, clientVars>>

\* The first-byte block left out: only receivedFirstByte is set.
FirstByteNotMarked(s) == [s EXCEPT !.receivedFirstByte = TRUE]

\* if (!receivedFirstByte) { ... } of the 'data' and of the 'end' handler:
\* first byte success after Date.now() - fbStartTime, download loading, update.
FirstByte(s) ==
    IF s.receivedFirstByte THEN s
    ELSE LET s0 == [s EXCEPT !.receivedFirstByte = TRUE,
                             !.cumulativeTime = @ + s.sinceFb]
             s1 == [s0 EXCEPT !.results = Succeed(@, 4, s.sinceFb)]
         IN  Emit(s1, "update", Loading(s1.results, 5))

\* Date.now() - (fbStartTime + (results.stages[3].durationMs || 0))
DownloadTime(s) ==
    s.sinceFb - (IF s.results.stages[4].durationMs = NoDuration
                 THEN 0 ELSE s.results.stages[4].durationMs)

\* response.once("data"): the first chunk of the body arrives d later.
SrvData(r, d) ==
    /\ srv[r].pc = "body"
    /\ srv[r].socket = "open"
    /\ ~srv[r].receivedFirstByte
    /\ srv' = [srv EXCEPT ![r] = FirstByte([@ EXCEPT !.sinceFb = @ + d])]
    /\ UNCHANGED <<network, clientVars>>

\* What follows the await of the first-byte promise once it has resolved:
\* "Send final update" and res.end().
SendFinal(s) == End(Write(s, "final"))

\* response.on("end") d later: first byte if no data came, download success,
\* the final message, resolve(); then the handler's continuation.
SrvEnd(r, d) ==
    /\ srv[r].pc = "body"
    /\ srv[r].socket = "open"
    /\ "body" \in network.ok
    /\ LET s0 == FirstByte([srv[r] EXCEPT !.sinceFb = @ + d])
           dlTime == DownloadTime(s0)
           s1 == [s0 EXCEPT !.cumulativeTime = @ + dlTime]
           s2 == Emit(s1, "final",
                      RunSucceeded(Succeed(s1.results, 5, dlTime), s1.cumulativeTime))
       IN  srv' = [srv EXCEPT ![r] = SendFinal(s2)]
    /\ UNCHANGED <<network, clientVars>>

\* FailedStage without its test of the first-byte status.
FailedStageAlwaysDownload(res) == 5

\* FailedStage that blames the first-byte stage whatever its status.
FailedStageAlwaysFirstByte(res) == 4

\* The stage the catch of the first-byte/download block blames.
FailedStage(res) == IF res.stages[4].status = "loading" THEN 4 ELSE 5

\* The GET request fails with e, d later ('error', or 'timeout' and destroy),
\* before or after the response callback ran: the catch, then the final message.
SrvRequestFail(r, d, e) ==
    /\ srv[r].pc \in {"fb", "body"}
    /\ srv[r].socket = "open"
    /\ e \in RequestErrors("get", srv[r].processedUrl, Secure(srv[r]),
                           "Request timed out")
    /\ LET s0 == [srv[r] EXCEPT !.sinceFb = @ + d]
           i == FailedStage(s0.results)
           t == IF i = 4 THEN s0.sinceFb ELSE DownloadTime(s0)
           msg == RequestErrorMsg(e)
           s1 == [s0 EXCEPT !.cumulativeTime = @ + t]
           s2 == [s1 EXCEPT !.results =
                     RunFailed(StageError(@, i, t, msg), s1.cumulativeTime, msg)]
       IN  srv' = [srv EXCEPT ![r] = SendFinal(s2)]
    /\ UNCHANGED <<network, clientVars>>

\* The target closes the connection in the middle of the response: the
\* response is 'aborted', it gets no 'end', and the request, which has its
\* response, gets no 'error' and (its socket being closed) no 'timeout'.
SrvAborted(r) ==
    /\ srv[r].pc = "body"
    /\ srv[r].socket = "open"
    /\ network.aborts
    /\ srv' = [srv EXCEPT ![r] = [@ EXCEPT !.socket = "closed"]]
    /\ UNCHANGED <<network, clientVars>>

\* How long an awaited operation can take; a timer does not fire early.
Durations == 0..network.maxDur
TimerDurations == 1..(network.maxDur + 1)

SrvStep(r) ==
    \/ SrvHandle(r)
    \/ \E ok \in BOOLEAN : SrvLocation(r, ok)
    \/ \E d \in TimerDurations : SrvDnsDone(r, d)
    \/ \E d \in Durations : SrvConnOk(r, d)
    \/ \E d \in Durations, e \in AllErrors : SrvConnFail(r, d, e)
    \/ \E d \in Durations : SrvTlsOk(r, d)
    \/ \E d \in Durations, e \in AllErrors : SrvTlsFail(r, d, e)
    \/ \E d \in Durations : SrvResponse(r, d)
    \/ \E d \in Durations : SrvData(r, d)
    \/ \E d \in Durations : SrvEnd(r, d)
    \/ \E d \in Durations, e \in AllErrors : SrvRequestFail(r, d, e)
    \/ SrvAborted(r)

-----------------------------------------------------------------------------
(* The dashboard: StatusDashboard and Home *)

StoppedByUser == <<"Check stopped by user">>
FailedToFetch == <<"Failed to fetch">>

\* Home keeps prev.slice(0, 9) below the new entry.
HistoryKeep == 9
\* saveCheckToHistory keeps history.slice(0, 50).
HistoryLimit == 50

\* The URLs Home gets from the URL form: handleSubmit prepends http:// to a
\* URL without a protocol and passes only what new URL() accepts;
\* handleQuickCheck passes https://<site>.
ClientUrls == { <<"http", "://", "example.com">>, <<"https", "://", "other.org">> }

Take(seq, n) == SubSeq(seq, 1, IF Len(seq) < n THEN Len(seq) ELSE n)

\* useState(...) initial values
InitialUi ==
    [isStopped |-> FALSE,
     stages |-> [i \in 1..NStages |-> IdleStage(i)],
     isComplete |-> FALSE, isSuccess |-> FALSE, totalResponseTime |-> 0,
     errorMessage |-> <<>>, progress |-> 0]

\* "Reset all states when a new check begins"
ResetUi ==
    [isStopped |-> FALSE,
     stages |-> [i \in 1..NStages |->
                    IF i = 1 THEN [IdleStage(i) EXCEPT !.status = "loading"]
                    ELSE IdleStage(i)],
     isComplete |-> FALSE, isSuccess |-> FALSE, totalResponseTime |-> 0,
     errorMessage |-> <<>>, progress |-> 10]

\* An activation of performServerChecks: where it is, its targetUrl, the
\* isStopped of its closure, how much of the response it has read, its buffer,
\* and the lines it has parsed and applied.
NoRun ==
    [pc |-> "none", url |-> <<>>, isStopped |-> FALSE, pos |-> 0,
     buffer |-> <<>>, applied |-> <<>>]

\* The activations of performServerChecks that are awaiting fetch or read.
Live(r) == cl[r].pc \in {"fetch", "reading"}

updateProgressFromStages(stages) ==
    LET completed == Cardinality({i \in 1..NStages : Settled(stages[i])})
        isLoading == \E i \in 1..NStages : stages[i].status = "loading"
    IN  IF isLoading
        THEN (IF completed * 20 + 4 < 95 THEN completed * 20 + 4 ELSE 95)
        ELSE IF completed = NStages THEN 100
        ELSE completed * 20

\* saveCheckToHistory with push in the place of unshift.
saveCheckToHistoryPush(history, item) == Take(history \o <<item>>, HistoryLimit)

\* saveCheckToHistory(item) on the stored history
saveCheckToHistory(history, item) == Take(<<item>> \o history, HistoryLimit)

HistoryItem(url, success, responseTime, errorMessage) ==
    [url |-> url, success |-> success, responseTime |-> responseTime,
     errorMessage |-> errorMessage]

\* Home.handleCheckComplete(success, totalTime), called with the url of the
\* render that started the run.
handleCheckComplete(h, url, success, totalTime) ==
    [h EXCEPT !.isChecking = FALSE,
              !.checkHistory =
                  <<[url |-> url, success |-> success, responseTime |-> totalTime]>>
                  \o Take(@, HistoryKeep)]

\* The state setters of one parsed line { type, data }.
ApplyMessage(u, m) ==
    [u EXCEPT !.stages = m.data.stages,
              !.isComplete = m.data.isComplete,
              !.isSuccess = m.data.isSuccess,
              !.totalResponseTime = m.data.totalResponseTime,
              !.errorMessage = m.data.errorMessage,
              !.progress = updateProgressFromStages(m.data.stages)]

\* if (type === "final" || data.isComplete)
IsTerminal(m) == m.type = "final" \/ m.data.isComplete

\* A line that is not the text of a message: what is not JSON at all, and
\* JSON that has no data member.
InvalidLine == [text |-> "<html>"]
NoDataLine == [error |-> "URL is required"]

\* JSON.parse(line) does not throw.
JsonParses(m) == "text" \notin DOMAIN m

\* const { type, data } = ...; data.stages does not throw.
HasData(m) == "data" \in DOMAIN m

\* ProcessLines with the try around the whole loop: the exception of a line
\* ends the processing of the chunk.
RECURSIVE ProcessLinesNoCatch(_, _, _)
ProcessLinesNoCatch(st, url, lines) ==
    IF lines = <<>> THEN st
    ELSE LET m == Head(lines) IN
         IF ~(JsonParses(m) /\ HasData(m)) THEN st
         ELSE LET st1 == [st EXCEPT !.ui = ApplyMessage(@, m)]
                  st2 == IF IsTerminal(m)
                         THEN [st1 EXCEPT
                                 !.home = handleCheckComplete(@, url, m.data.isSuccess,
                                                              m.data.totalResponseTime),
                                 !.storage = saveCheckToHistory(@,
                                     HistoryItem(url, m.data.isSuccess,
                                                 m.data.totalResponseTime,
                                                 m.data.errorMessage))]
                         ELSE st1
              IN  ProcessLinesNoCatch(st2, url, Tail(lines))

\* The for loop over the lines of one chunk, on [ui, home, storage]; the
\* catch inside it logs the exception of a line and goes to the next line.
RECURSIVE ProcessLines(_, _, _)
ProcessLines(st, url, lines) ==
    IF lines = <<>> THEN st
    ELSE IF ~(JsonParses(Head(lines)) /\ HasData(Head(lines)))
    THEN ProcessLines(st, url, Tail(lines))
    ELSE LET m == Head(lines)
             st1 == [st EXCEPT !.ui = ApplyMessage(@, m)]
             st2 == IF IsTerminal(m)
                    THEN [st1 EXCEPT
                            !.home = handleCheckComplete(@, url, m.data.isSuccess,
                                                         m.data.totalResponseTime),
                            !.storage = saveCheckToHistory(@,
                                HistoryItem(url, m.data.isSuccess,
                                            m.data.totalResponseTime,
                                            m.data.errorMessage))]
                    ELSE st1
         IN  ProcessLines(st2, url, Tail(lines))

\* CancelRuns without effect on the activations.
CancelRunsNone(c, reader, controller) == c

\* reader.cancel() and controller.abort() reach the activations that await
\* on them: the pending read resolves done (or rejects AbortError), the
\* pending fetch rejects AbortError; the activation leaves without touching
\* the state (its finally finds readerRef.current already null).
CancelRuns(c, reader, controller) ==
    [r \in Runs |->
        IF c[r].pc \in {"fetch", "reading"} /\ r \in {reader, controller}
        THEN [c[r] EXCEPT !.pc = "cancelled"]
        ELSE c[r]]

\* The cleanup function of the effect (the plain dashboard returns none).
Cleanup(c) ==
    IF component = "cancellable"
    THEN CancelRuns(c, readerRef, abortControllerRef)
    ELSE c

\* React commits Home's state h: if [isChecking, url] changed, the cleanup of
\* the previous effect runs, then the effect; with isChecking && url it resets
\* the state, makes a new AbortController and calls performServerChecks(url),
\* which issues the fetch.
CommitTo(h, u, store) ==
    /\ home' = h
    /\ storage' = store
    /\ UNCHANGED <<component, network, nstops>>
    /\ IF <<h.isChecking, h.url>> = deps
       THEN /\ ui' = u
            /\ UNCHANGED <<readerRef, abortControllerRef, deps, cl, srv, nruns>>
       ELSE /\ deps' = <<h.isChecking, h.url>>
            /\ IF h.isChecking /\ h.url # <<>>
               THEN /\ nruns < MaxRuns
                    /\ nruns' = nruns + 1
                    /\ ui' = ResetUi
                    /\ readerRef' = IF component = "cancellable" THEN 0 ELSE readerRef
                    /\ abortControllerRef' =
                          IF component = "cancellable" THEN nruns + 1 ELSE 0
                    /\ cl' = [Cleanup(cl) EXCEPT ![nruns + 1] =
                                [pc |-> "fetch", url |-> h.url,
                                 isStopped |-> u.isStopped, pos |-> 0,
                                 buffer |-> <<>>, applied |-> <<>>]]
                    /\ srv' = [srv EXCEPT ![nruns + 1] = Request(h.url)]
               ELSE /\ ui' = u
                    /\ readerRef' = IF component = "cancellable" THEN 0 ELSE readerRef
                    /\ abortControllerRef' =
                          IF component = "cancellable" THEN 0 ELSE abortControllerRef
                    /\ cl' = Cleanup(cl)
                    /\ UNCHANGED <<srv, nruns>>

\* The page shows the committed state: a state change made by a line of the
\* stream is rendered before the next click.
Rendered == <<home.isChecking, home.url>> = deps

\* Home.handleCheckStatus(inputUrl): the URL form, disabled while isLoading,
\* is submitted.
HandleCheckStatus(inputUrl) ==
    /\ inputUrl \in ClientUrls
    /\ Rendered
    /\ ~home.isChecking
    /\ CommitTo([home EXCEPT !.url = inputUrl, !.isChecking = TRUE], ui, storage)

\* Home.handleRecheck
HandleRecheck ==
    /\ Rendered
    /\ home.url # <<>>
    /\ ~home.isChecking
    /\ CommitTo([home EXCEPT !.isChecking = TRUE], ui, storage)

\* The recheck button of row i of the history table.
HandleHistoryRecheck(i) ==
    /\ Rendered
    /\ i \in DOMAIN home.checkHistory
    /\ <<TRUE, home.checkHistory[i].url>> # <<home.isChecking, home.url>>
    /\ CommitTo([home EXCEPT !.url = home.checkHistory[i].url, !.isChecking = TRUE],
                ui, storage)

\* A state change made outside an event handler (by a line of the stream) is
\* committed later.
CommitPending ==
    /\ <<home.isChecking, home.url>> # deps
    /\ CommitTo(home, ui, storage)

\* "Save stopped check to history"
StoppedHistory(store, u, h) ==
    saveCheckToHistory(store,
        HistoryItem(h.url, FALSE, u.totalResponseTime, StoppedByUser))

\* handleStopChecks without setIsComplete(true).
StoppedUiNotComplete(u) ==
    [u EXCEPT !.isStopped = TRUE, !.errorMessage = StoppedByUser, !.progress = 100]

\* handleStopChecks that also marks the stages in progress as failed.
StoppedUiFailsLoading(u) ==
    [u EXCEPT !.isStopped = TRUE, !.isComplete = TRUE,
              !.errorMessage = StoppedByUser, !.progress = 100,
              !.stages = [i \in 1..NStages |->
                            IF @[i].status = "loading"
                            THEN [@[i] EXCEPT !.status = "error"] ELSE @[i]]]

\* handleStopChecks with the total time set back to 0.
StoppedUiResetsTotal(u) ==
    [u EXCEPT !.isStopped = TRUE, !.isComplete = TRUE, !.totalResponseTime = 0,
              !.errorMessage = StoppedByUser, !.progress = 100]

\* setIsStopped(true); setIsComplete(true); setErrorMessage(...); setProgress(100)
StoppedUi(u) ==
    [u EXCEPT !.isStopped = TRUE, !.isComplete = TRUE,
              !.errorMessage = StoppedByUser, !.progress = 100]

\* handleStopChecks (the Stop button of the cancellable dashboard); Home
\* passes no onStopCheck, so that call does nothing.
HandleStopChecks ==
    /\ component = "cancellable"
    /\ nstops < MaxStops
    /\ nstops' = nstops + 1
    /\ cl' = CancelRuns(cl, readerRef, abortControllerRef)
    /\ readerRef' = 0
    /\ abortControllerRef' = 0
    /\ ui' = StoppedUi(ui)
    /\ storage' = StoppedHistory(storage, ui, home)
    /\ UNCHANGED <<component, home, deps, srv, nruns, network>>

\* await fetch(...) resolves once the server has sent the response head, which
\* it does with its first write.  The reader is taken; an activation whose
\* isStopped was true when it was created cancels it and leaves.
FetchResolve(r) ==
    /\ cl[r].pc = "fetch"
    /\ Len(srv[r].out) >= 1
    /\ IF component = "cancellable" /\ cl[r].isStopped
       THEN /\ cl' = [cl EXCEPT ![r].pc = "cancelled"]
            /\ readerRef' = 0
       ELSE /\ cl' = [cl EXCEPT ![r].pc = "reading"]
            /\ readerRef' = IF component = "cancellable" THEN r ELSE readerRef
    /\ UNCHANGED <<component, home, ui, abortControllerRef, deps, storage, nruns,
                   nstops, srv, network>>

\* await fetch(...) rejects because the request did not reach the server: the
\* outer catch.
FetchFail(r) ==
    /\ cl[r].pc = "fetch"
    /\ srv[r].pc = "request"
    /\ srv' = [srv EXCEPT ![r] = NoRequest]
    /\ cl' = [cl EXCEPT ![r].pc = "done"]
    /\ readerRef' = IF component = "cancellable" THEN 0 ELSE readerRef
    /\ IF component = "cancellable" /\ cl[r].isStopped
       THEN UNCHANGED <<home, ui, storage>>
       ELSE /\ ui' = [ui EXCEPT !.errorMessage = FailedToFetch, !.isComplete = TRUE,
                                !.isSuccess = FALSE, !.progress = 100]
            /\ home' = handleCheckComplete(home, cl[r].url, FALSE, 0)
            /\ storage' = saveCheckToHistory(storage,
                              HistoryItem(cl[r].url, FALSE, 0, FailedToFetch))
    /\ UNCHANGED <<component, abortControllerRef, deps, nruns, nstops, network>>

\* await reader.read() resolves with a chunk holding the next n lines the
\* server wrote; each line is parsed and applied.  (Chunks that end anywhere
\* are ReadBytes.)
ReadChunk(r, n) ==
    /\ cl[r].pc = "reading"
    /\ n \in 1..(Len(srv[r].out) - cl[r].pos)
    /\ LET lines == SubSeq(srv[r].out, cl[r].pos + 1, cl[r].pos + n)
           st == ProcessLines([ui |-> ui, home |-> home, storage |-> storage],
                              cl[r].url, lines)
       IN  /\ ui' = st.ui
           /\ home' = st.home
           /\ storage' = st.storage
    /\ cl' = [cl EXCEPT ![r].pos = @ + n]
    /\ UNCHANGED <<component, readerRef, abortControllerRef, deps, nruns, nstops,
                   srv, network>>

\* The response body as bytes: res.write(JSON.stringify(...) + "\n") of the
\* k-th message is the two halves of its JSON text and a newline.
BytesPerLine == 3
Newline == 0

WireByte(j) ==
    [part |-> IF j % BytesPerLine = 0 THEN Newline ELSE j % BytesPerLine,
     line |-> (j + BytesPerLine - 1) \div BytesPerLine]

WireLen(r) == BytesPerLine * Len(srv[r].out)

\* buffer.split("\n")
RECURSIVE SplitLines(_)
SplitLines(bytes) ==
    IF bytes = <<>> THEN << <<>> >>
    ELSE LET rest == SplitLines(Tail(bytes)) IN
         IF Head(bytes).part = Newline THEN << <<>> >> \o rest
         ELSE << <<Head(bytes)>> \o rest[1] >> \o Tail(rest)

\* JSON.parse(line) does not throw: the line is the whole text of a message.
Parses(line) ==
    /\ Len(line) = 2
    /\ line[1].part = 1
    /\ line[2].part = 2
    /\ line[1].line = line[2].line

\* The lines the for loop applies: if (line.trim()) { try { JSON.parse(line) ...
ParsedLines(lines) == SelectSeq(lines, LAMBDA line : line # <<>> /\ Parses(line))

\* buffer = lines.pop() || ""
KeptBuffer(pieces) == pieces[Len(pieces)]

\* await reader.read() resolves with a chunk of the next n bytes of the body,
\* wherever they end: buffer += chunk, split, keep the last piece, parse and
\* apply the others.
ReadBytes(r, n) ==
    /\ cl[r].pc = "reading"
    /\ n \in 1..(WireLen(r) - cl[r].pos)
    /\ LET chunk == [j \in 1..n |-> WireByte(cl[r].pos + j)]
           pieces == SplitLines(cl[r].buffer \o chunk)
           parsed == ParsedLines(SubSeq(pieces, 1, Len(pieces) - 1))
           lines == [k \in 1..Len(parsed) |-> srv[r].out[parsed[k][1].line]]
           st == ProcessLines([ui |-> ui, home |-> home, storage |-> storage],
                              cl[r].url, lines)
       IN  /\ ui' = st.ui
           /\ home' = st.home
           /\ storage' = st.storage
           /\ cl' = [cl EXCEPT ![r].pos = @ + n,
                               ![r].buffer = KeptBuffer(pieces),
                               ![r].applied =
                                   @ \o [k \in 1..Len(parsed) |-> parsed[k][1].line]]
    /\ UNCHANGED <<component, readerRef, abortControllerRef, deps, nruns, nstops,
                   srv, network>>

\* await reader.read() resolves done after the last byte.
ReadBytesDone(r) ==
    /\ cl[r].pc = "reading"
    /\ srv[r].ended
    /\ cl[r].pos = WireLen(r)
    /\ cl' = [cl EXCEPT ![r].pc = "done"]
    /\ readerRef' = IF component = "cancellable" THEN 0 ELSE readerRef
    /\ UNCHANGED <<component, home, ui, abortControllerRef, deps, storage, nruns,
                   nstops, srv, network>>

\* await reader.read() resolves done: the server ended the response and every
\* line was read.  break; finally readerRef.current = null.
ReadDone(r) ==
    /\ cl[r].pc = "reading"
    /\ srv[r].ended
    /\ cl[r].pos = Len(srv[r].out)
    /\ cl' = [cl EXCEPT ![r].pc = "done"]
    /\ readerRef' = IF component = "cancellable" THEN 0 ELSE readerRef
    /\ UNCHANGED <<component, home, ui, abortControllerRef, deps, storage, nruns,
                   nstops, srv, network>>

\* The Stop button is rendered while isChecking && !isStopped.
StopButtonShown == Rendered /\ home.isChecking /\ ~ui.isStopped

\* A click on the Stop button.
ClickStop ==
    /\ StopButtonShown
    /\ HandleStopChecks

ClientStep ==
    \/ \E u \in ClientUrls : HandleCheckStatus(u)
    \/ HandleRecheck
    \/ \E i \in 1..(HistoryKeep + 1) : HandleHistoryRecheck(i)
    \/ CommitPending
    \/ ClickStop
    \/ \E r \in Runs : FetchResolve(r)
    \/ \E r \in Runs : FetchFail(r)
    \/ \E r \in Runs, n \in 1..(2 * NStages + 2) : ReadChunk(r, n)
    \/ \E r \in Runs : ReadDone(r)

ClientInit ==
    /\ home = [url |-> <<>>, isChecking |-> FALSE, checkHistory |-> <<>>]
    /\ ui = InitialUi
    /\ readerRef = 0
    /\ abortControllerRef = 0
    /\ deps = <<FALSE, <<>>>>
    /\ cl = [r \in Runs |-> NoRun]
    /\ storage = <<>>
    /\ nruns = 0
    /\ nstops = 0

-----------------------------------------------------------------------------
(* The client-driven dashboard: performRealChecks (StatusDashboard.tsx) *)

\* Number of checks one behaviour of the client-driven dashboard starts.
RealMaxRuns == 2

\* "Nominal value" of the TLS stage and of the simulated download.
TlsNominal == 100
DownloadNominal == 500

\* if (!startsWith("http://") && !startsWith("https://")) https://...
RealProcessedUrl(url) ==
    IF Len(url) >= 2 /\ url[1] \in {"http", "https"} /\ url[2] = "://" THEN url
    ELSE <<"https", "://">> \o url

\* extractDomain(url): the hostname, or the url itself if new URL throws.
extractDomain(url) ==
    IF ParsesAsUrl(ensureProtocol(url)) THEN <<ensureProtocol(url)[3]>> ELSE url

\* updateStage(id, status, timestamp, durationMs, errorDetails): a missing
\* argument makes the field undefined.
updateStage(u, i, status, timestamp, durationMs, errorDetails) ==
    [u EXCEPT !.stages[i].status = status,
              !.stages[i].timestamp = timestamp,
              !.stages[i].durationMs = durationMs,
              !.stages[i].errorDetails = errorDetails]

setProgress(u, p) == [u EXCEPT !.progress = p]

\* completeCheck(success, totalTime, error): the dashboard's own state
completeCheckUi(u, success, totalTime, error) ==
    [u EXCEPT !.isComplete = TRUE, !.isSuccess = success,
              !.totalResponseTime = totalTime, !.progress = 100,
              !.errorMessage = IF error # <<>> THEN error ELSE @]

\* The activation r of performRealChecks ends with completeCheck on the
\* state u.
RealComplete(r, u, cum, success, error) ==
    /\ ui' = completeCheckUi(u, success, cum, error)
    /\ home' = handleCheckComplete(home, cl[r].url, success, cum)
    /\ cl' = [cl EXCEPT ![r].pc = "done", ![r].cumulativeTime = cum]

\* stages.find((s) => s.id === "firstByte")?.status === "loading", on the
\* stages of the render whose effect called performRealChecks.
ClosureFirstByteLoading(r) == cl[r].closure[4].status = "loading"

\* stages.find((s) => s.id === "firstByte")?.durationMs || 0
ClosureFirstByteDuration(r) ==
    IF cl[r].closure[4].durationMs = NoDuration THEN 0
    ELSE cl[r].closure[4].durationMs

\* React commits Home's state h with isChecking && url: the effect resets the
\* state and calls performRealChecks(url), which runs up to its first await.
RealCommit(h) ==
    /\ nruns < RealMaxRuns
    /\ h.isChecking /\ h.url # <<>>
    /\ <<h.isChecking, h.url>> # deps
    /\ home' = h
    /\ deps' = <<h.isChecking, h.url>>
    /\ nruns' = nruns + 1
    /\ ui' = ResetUi
    /\ cl' = [cl EXCEPT ![nruns + 1] =
                [pc |-> IF extractDomain(RealProcessedUrl(h.url)) = <<>>
                        THEN "nodomain" ELSE "dns",
                 url |-> h.url, processedUrl |-> RealProcessedUrl(h.url),
                 closure |-> ui.stages, cumulativeTime |-> 0, sinceFb |-> 0,
                 progressed |-> FALSE]]
    /\ UNCHANGED <<component, readerRef, abortControllerRef, storage, nstops,
                   srv, network>>

RealHandleCheckStatus(inputUrl) ==
    /\ inputUrl \in ClientUrls
    /\ Rendered
    /\ ~home.isChecking
    /\ RealCommit([home EXCEPT !.url = inputUrl, !.isChecking = TRUE])

RealHandleRecheck ==
    /\ Rendered
    /\ home.url # <<>>
    /\ ~home.isChecking
    /\ RealCommit([home EXCEPT !.isChecking = TRUE])

\* Home's isChecking = false is committed: the effect runs and does nothing.
RealCommitPending ==
    /\ <<home.isChecking, home.url>> # deps
    /\ ~home.isChecking
    /\ deps' = <<home.isChecking, home.url>>
    /\ UNCHANGED <<component, home, ui, readerRef, abortControllerRef, cl, storage,
                   nruns, nstops, srv, network>>

RealFrame ==
    UNCHANGED <<component, readerRef, abortControllerRef, deps, storage, nruns,
                nstops, srv, network>>

\* One of the two HEAD requests to the domain resolves after d: DNS success,
\* then the connection stage goes loading and the ping is sent.
RealDnsOk(r, d) ==
    /\ cl[r].pc = "dns"
    /\ ParsesAsUrl(cl[r].processedUrl)
    /\ ui' = setProgress(updateStage(
                 setProgress(updateStage(ui, 1, "success", TRUE, d, <<>>), 25),
                 2, "loading", FALSE, NoDuration, <<>>), 40)
    /\ cl' = [cl EXCEPT ![r].pc = "ping", ![r].cumulativeTime = @ + d]
    /\ UNCHANGED home
    /\ RealFrame

\* The domain is empty, or both HEAD requests fail after d: DNS error.
RealDnsFail(r, d) ==
    /\ cl[r].pc \in {"dns", "nodomain"}
    /\ LET errorMsg == IF cl[r].pc = "nodomain" THEN <<"Invalid domain">>
                       ELSE <<"Domain not resolvable">>
           cum == cl[r].cumulativeTime + d
       IN  RealComplete(r, updateStage(ui, 1, "error", TRUE, d, errorMsg), cum,
                        FALSE, <<"DNS resolution failed: ">> \o errorMsg)
    /\ RealFrame

\* The inner catch with the connection stage failed by the site's error.
RealSiteErrorFails(u, d) ==
    updateStage(u, 2, "error", TRUE, d, <<"Connection failed">>)

\* catch (siteError): "Even if the specific site connection fails, we'll mark
\* it as success if we could connect to Google".
RealSiteError(u, d) == updateStage(u, 2, "success", TRUE, d, <<>>)

\* The ping of www.google.com has resolved and the HEAD request to the site
\* resolves (siteOk) or rejects, d after the start of the stage: connection
\* success; the TLS stage with its nominal time, or skipped; the first-byte
\* stage loading; the GET.
RealPingOk(r, d, siteOk) ==
    /\ cl[r].pc = "ping"
    /\ siteOk \in BOOLEAN
    /\ LET u1 == IF siteOk THEN updateStage(ui, 2, "success", TRUE, d, <<>>)
                 ELSE RealSiteError(ui, d)
           secure == StartsWithHttps(cl[r].processedUrl)
           u2 == IF secure
                 THEN updateStage(setProgress(u1, 60), 3, "success", TRUE,
                                  TlsNominal, <<>>)
                 ELSE setProgress(updateStage(u1, 3, "success", TRUE, 0,
                                              <<"Skipped (HTTP)">>), 60)
           u3 == setProgress(updateStage(u2, 4, "loading", FALSE, NoDuration, <<>>), 75)
       IN  /\ ui' = u3
           /\ cl' = [cl EXCEPT ![r].pc = "get", ![r].sinceFb = 0,
                               ![r].cumulativeTime =
                                   @ + d + (IF secure THEN TlsNominal ELSE 0)]
    /\ UNCHANGED home
    /\ RealFrame

\* The ping fails with e after d: connection error.
RealPingFail(r, d, e) ==
    /\ cl[r].pc = "ping"
    /\ LET errorMsg == IF e.code = "ECONNABORTED" THEN <<"Connection timed out">>
                       ELSE IF e.message # <<>>
                            THEN <<"Connection failed: ", FirstLine(e)>>
                       ELSE <<"Connection failed - network may be down">>
           cum == cl[r].cumulativeTime + d
       IN  RealComplete(r, updateStage(ui, 2, "error", TRUE, d, errorMsg), cum,
                        FALSE, errorMsg)
    /\ RealFrame

\* fetch(processedUrl) resolves after d: first byte success, download
\* loading, and the 500 ms timer is started.
RealFetchOk(r, d) ==
    /\ cl[r].pc = "get"
    /\ ui' = setProgress(updateStage(updateStage(ui, 4, "success", TRUE, d, <<>>),
                                     5, "loading", FALSE, NoDuration, <<>>), 90)
    /\ cl' = [cl EXCEPT ![r].pc = "timer", ![r].cumulativeTime = @ + d]
    /\ UNCHANGED home
    /\ RealFrame

\* The timer fires: download success with its nominal time, completeCheck(true).
RealDownloadDone(r) ==
    /\ cl[r].pc = "timer"
    /\ RealComplete(r, updateStage(ui, 5, "success", TRUE, DownloadNominal, <<>>),
                    cl[r].cumulativeTime + DownloadNominal, TRUE, <<>>)
    /\ RealFrame

\* fetch(processedUrl) rejects after d: axios.get is tried.
RealFetchFail(r, d) ==
    /\ cl[r].pc = "get"
    /\ cl' = [cl EXCEPT ![r].pc = "axios", ![r].sinceFb = @ + d]
    /\ UNCHANGED <<home, ui>>
    /\ RealFrame

\* onDownloadProgress with loaded > 0, d later (followed here once per run).
RealProgress(r, d) ==
    /\ cl[r].pc = "axios"
    /\ ~cl[r].progressed
    /\ LET since == cl[r].sinceFb + d IN
       IF ClosureFirstByteLoading(r)
       THEN /\ ui' = setProgress(updateStage(
                         updateStage(ui, 4, "success", TRUE, since, <<>>),
                         5, "loading", FALSE, NoDuration, <<>>), 90)
            /\ cl' = [cl EXCEPT ![r].progressed = TRUE, ![r].sinceFb = since,
                                ![r].cumulativeTime = @ + since]
       ELSE /\ ui' = ui
            /\ cl' = [cl EXCEPT ![r].progressed = TRUE, ![r].sinceFb = since]
    /\ UNCHANGED home
    /\ RealFrame

\* axios.get resolves d later: first byte success if the stages of the closure
\* say it is loading, download success, completeCheck(true).
RealAxiosOk(r, d) ==
    /\ cl[r].pc = "axios"
    /\ LET since == cl[r].sinceFb + d
           fb == ClosureFirstByteLoading(r)
           u1 == IF fb THEN updateStage(ui, 4, "success", TRUE, since, <<>>) ELSE ui
           dlTime == since - ClosureFirstByteDuration(r)
           cum == cl[r].cumulativeTime + (IF fb THEN since ELSE 0) + dlTime
       IN  RealComplete(r, updateStage(u1, 5, "success", TRUE, dlTime, <<>>), cum,
                        TRUE, <<>>)
    /\ RealFrame

\* axios.get rejects with e, d later: the catch blames the first-byte stage if
\* the stages of the closure say it is loading, the download stage otherwise.
RealAxiosFail(r, d, e) ==
    /\ cl[r].pc = "axios"
    /\ LET since == cl[r].sinceFb + d
           errorMsg == IF e.code = "ECONNABORTED" THEN <<"Request timed out">>
                       ELSE IF e.message # <<>> THEN <<FirstLine(e)>>
                       ELSE <<"Request failed">>
           t == IF ClosureFirstByteLoading(r) THEN since
                ELSE since - ClosureFirstByteDuration(r)
           i == IF ClosureFirstByteLoading(r) THEN 4 ELSE 5
       IN  RealComplete(r, updateStage(ui, i, "error", TRUE, t, errorMsg),
                        cl[r].cumulativeTime + t, FALSE, errorMsg)
    /\ RealFrame

\* What fetch and axios reject with.
RealErrors ==
    { Err("", <<"Failed to fetch">>),
      Err("ECONNABORTED", <<"timeout of 10000ms exceeded">>),
      Err("ERR_NETWORK", <<"Network Error">>),
      Err("", <<>>) }

RealStep(r) ==
    \/ \E d \in Durations : RealDnsOk(r, d)
    \/ \E d \in Durations : RealDnsFail(r, d)
    \/ \E d \in Durations, siteOk \in BOOLEAN : RealPingOk(r, d, siteOk)
    \/ \E d \in Durations, e \in RealErrors : RealPingFail(r, d, e)
    \/ \E d \in Durations : RealFetchOk(r, d)
    \/ RealDownloadDone(r)
    \/ \E d \in Durations : RealFetchFail(r, d)
    \/ \E d \in Durations : RealProgress(r, d)
    \/ \E d \in Durations : RealAxiosOk(r, d)
    \/ \E d \in Durations, e \in RealErrors : RealAxiosFail(r, d, e)

-----------------------------------------------------------------------------
(* Specifications *)

\* The targets the dashboard's specifications probe.  Each behaves the same
\* way for the whole session: it answers every request, refuses the
\* connection, fails the TLS handshake, resets the GET request, or breaks the
\* body off.  Only the DNS timer takes time.  ServerSpec has every duration and
\* every outcome of every request.
Refused == Err("ECONNREFUSED", <<"connect ECONNREFUSED", "    at TCPConnectWrap">>)

Target(ok, failing, aborts) ==
    [maxDur |-> 0, ok |-> ok, statuses |-> {200},
     errors |-> [op \in NetOps |-> IF op = failing THEN {Refused} ELSE {}],
     aborts |-> aborts]

ClientNetworks ==
    { Target({"head", "tls", "get", "body"}, "none", FALSE),
      Target({}, "head", FALSE),
      Target({"head", "get", "body"}, "tls", FALSE),
      Target({"head", "tls"}, "get", FALSE),
      Target({"head", "tls", "get"}, "none", TRUE) }

\* The dashboard and the server behind it.
Init ==
    /\ component = "cancellable"
    /\ network \in ClientNetworks
    /\ ClientInit
    /\ srv = [r \in Runs |-> NoRequest]

Next ==
    \/ ClientStep
    \/ \E r \in Runs : SrvStep(r)

Spec == Init /\ [][Next]_vars

\* What the event loop of the browser does without the user (see
\* ConsumerAsync), with the response read in chunks of whole lines.
Async ==
    \/ CommitPending
    \/ \E r \in Runs : FetchResolve(r)
    \/ \E r \in Runs, n \in 1..(2 * NStages + 2) : ReadChunk(r, n)
    \/ \E r \in Runs : ReadDone(r)

\* The dashboard and the server with their event loops running.  Nothing
\* obliges the user to click or the request to the server to fail.
LiveSpec ==
    /\ Init
    /\ [][Next]_vars
    /\ WF_vars(Async)
    /\ \A r \in Runs : WF_vars(SrvStep(r))

\* The same, with handleStopChecks called as a function of the dashboard,
\* whether or not its button is rendered.
HandlerClientStep ==
    \/ \E u \in ClientUrls : HandleCheckStatus(u)
    \/ HandleRecheck
    \/ \E i \in 1..(HistoryKeep + 1) : HandleHistoryRecheck(i)
    \/ CommitPending
    \/ HandleStopChecks
    \/ \E r \in Runs : FetchResolve(r)
    \/ \E r \in Runs : FetchFail(r)
    \/ \E r \in Runs, n \in 1..(2 * NStages + 2) : ReadChunk(r, n)
    \/ \E r \in Runs : ReadDone(r)

HandlerNext ==
    \/ HandlerClientStep
    \/ \E r \in Runs : SrvStep(r)

HandlerSpec == Init /\ [][HandlerNext]_vars

\* The dashboard without cancellation (StatusDashboard.tsx) and the server.
\* Its targets have every outcome of a check: the one whose TLS handshake
\* fails answers an http URL in full, as the target without failures would.
PlainNetworks ==
    { Target({}, "head", FALSE),
      Target({"head", "get", "body"}, "tls", FALSE),
      Target({"head", "tls"}, "get", FALSE),
      Target({"head", "tls", "get"}, "none", TRUE) }

PlainInit ==
    /\ component = "plain"
    /\ network \in PlainNetworks
    /\ ClientInit
    /\ srv = [r \in Runs |-> NoRequest]

PlainClientStep ==
    \/ \E u \in ClientUrls : HandleCheckStatus(u)
    \/ HandleRecheck
    \/ \E i \in 1..(HistoryKeep + 1) : HandleHistoryRecheck(i)
    \/ CommitPending
    \/ \E r \in Runs : FetchResolve(r)
    \/ \E r \in Runs : FetchFail(r)
    \/ \E r \in Runs, n \in 1..(2 * NStages + 2) : ReadChunk(r, n)
    \/ \E r \in Runs : ReadDone(r)

PlainNext ==
    \/ PlainClientStep
    \/ \E r \in Runs : SrvStep(r)

PlainSpec == PlainInit /\ [][PlainNext]_vars

\* One check of either server-driven dashboard whose request is answered by
\* something that writes any lines: the lines of a check, text that is not
\* JSON, JSON of another kind.
MaxLines == 3

StreamLines ==
    { InvalidLine, NoDataLine,
      Message("update", Loading(NewResults, 1)),
      Message("update", Succeed(NewResults, 1, 1)),
      Message("final",
              RunFailed(StageError(Succeed(NewResults, 1, 1), 2, 0,
                                   <<"Connection failed: ", "connect ECONNREFUSED">>),
                        1, <<"Connection failed: ", "connect ECONNREFUSED">>)) }

\* The responder writes a line of the body.
StreamWrite(r, m) ==
    /\ srv[r].pc \in {"request", "stream"}
    /\ ~srv[r].ended
    /\ Len(srv[r].out) < MaxLines
    /\ srv' = [srv EXCEPT ![r].pc = "stream", ![r].out = Append(@, m)]
    /\ UNCHANGED <<network, clientVars>>

\* The responder ends the body.
StreamEnd(r) ==
    /\ srv[r].pc = "stream"
    /\ ~srv[r].ended
    /\ srv' = [srv EXCEPT ![r].ended = TRUE]
    /\ UNCHANGED <<network, clientVars>>

ParserInit ==
    /\ component \in {"cancellable", "plain"}
    /\ network = Target({}, "none", FALSE)
    /\ ClientInit
    /\ srv = [r \in Runs |-> NoRequest]

ParserNext ==
    \/ \E u \in ClientUrls : nruns = 0 /\ HandleCheckStatus(u)
    \/ CommitPending
    \/ FetchResolve(1)
    \/ FetchFail(1)
    \/ \E n \in 1..MaxLines : ReadChunk(1, n)
    \/ ReadDone(1)
    \/ \E m \in StreamLines : StreamWrite(1, m)
    \/ StreamEnd(1)

ParserSpec == ParserInit /\ [][ParserNext]_vars

\* saveCheckToHistory on its own: the browser starts with the history an
\* earlier session left in localStorage, of any length up to the limit, and
\* records are saved one after the other.  Each record carries in seq the
\* number of the call that saved it, which stands for its timestamp.
MaxSaves == 3

SavedItem(n, url, success) ==
    [seq |-> n, url |-> url, success |-> success, responseTime |-> 0,
     errorMessage |-> <<>>]

\* getCheckHistory(): JSON.parse of what the last call stored.
getCheckHistory == storage

\* The number of records saved so far.
SavedSoFar == IF getCheckHistory = <<>> THEN 0 ELSE getCheckHistory[1].seq

\* The history an earlier session left, k records long.
EarlierHistory(k) ==
    [j \in 1..k |-> SavedItem(k - j + 1, <<"http", "://", "example.com">>, TRUE)]

HistoryInit ==
    /\ component = "cancellable"
    /\ network = Target({}, "none", FALSE)
    /\ srv = [r \in Runs |-> NoRequest]
    /\ home = [url |-> <<>>, isChecking |-> FALSE, checkHistory |-> <<>>]
    /\ ui = InitialUi
    /\ readerRef = 0
    /\ abortControllerRef = 0
    /\ deps = <<FALSE, <<>>>>
    /\ cl = [r \in Runs |-> NoRun]
    /\ nruns = 0
    /\ nstops = 0
    /\ \E k \in 0..HistoryLimit : storage = EarlierHistory(k)

\* saveCheckToHistory(item) at the end of a check; nruns counts the checks
\* whose result was saved.
HistorySave(url, success) ==
    /\ nruns < MaxSaves
    /\ nruns' = nruns + 1
    /\ storage' = saveCheckToHistory(getCheckHistory,
                                     SavedItem(SavedSoFar + 1, url, success))
    /\ UNCHANGED <<component, network, srv, home, ui, readerRef,
                   abortControllerRef, deps, cl, nstops>>

HistoryNext ==
    \E url \in ClientUrls, success \in BOOLEAN : HistorySave(url, success)

HistorySpec == HistoryInit /\ [][HistoryNext]_vars

\* One check of the cancellable dashboard, its response read in chunks of
\* bytes that end anywhere, against a target with every outcome.
MaxChunk == BytesPerLine * (2 * NStages + 2)

ConsumerInit ==
    /\ component = "cancellable"
    /\ network = [maxDur |-> 0, ok |-> NetOps \cup {"body"},
                  statuses |-> {200},
                  errors |-> [op \in NetOps |-> {Refused}], aborts |-> TRUE]
    /\ ClientInit
    /\ srv = [r \in Runs |-> NoRequest]

ConsumerNext ==
    \/ \E u \in ClientUrls : nruns = 0 /\ HandleCheckStatus(u)
    \/ CommitPending
    \/ FetchResolve(1)
    \/ FetchFail(1)
    \/ \E n \in 1..MaxChunk : ReadBytes(1, n)
    \/ ReadBytesDone(1)
    \/ SrvStep(1)

ConsumerSpec == ConsumerInit /\ [][ConsumerNext]_vars

\* What the event loops do without the user: a pending commit is made, a
\* fetch that has its response head resolves, a read that has bytes or the
\* end of the body resolves.
ConsumerAsync ==
    \/ CommitPending
    \/ FetchResolve(1)
    \/ \E n \in 1..MaxChunk : ReadBytes(1, n)
    \/ ReadBytesDone(1)

\* The same check with the event loops of the browser and of the server
\* running: a continuation that can run does run.  Nothing obliges the user
\* to click or the network to fail.
ConsumerLiveSpec ==
    /\ ConsumerInit
    /\ [][ConsumerNext]_vars
    /\ WF_vars(ConsumerAsync)
    /\ WF_vars(SrvStep(1))

\* The client-driven dashboard under Home: checks started one after the
\* other from the URL form and the Recheck button.  Only the nominal times
\* of the TLS stage and of the download take time.
RealInit ==
    /\ component = "real"
    /\ network = [maxDur |-> 0, ok |-> {}, statuses |-> {200},
                  errors |-> [op \in NetOps |-> {}], aborts |-> FALSE]
    /\ ClientInit
    /\ srv = [r \in Runs |-> NoRequest]

RealNext ==
    \/ \E u \in ClientUrls : RealHandleCheckStatus(u)
    \/ RealHandleRecheck
    \/ RealCommitPending
    \/ \E r \in Runs : RealStep(r)

RealSpec == RealInit /\ [][RealNext]_vars

ServerNext == \E r \in Runs : SrvStep(r)

\* One request, of any target, on its own.
ServerInit ==
    /\ component = "cancellable"
    /\ network = [maxDur |-> MaxDur, ok |-> NetOps \cup {"body"},
                  statuses |-> StatusCodes,
                  errors |-> [op \in NetOps |-> AllErrors], aborts |-> TRUE]
    /\ ClientInit
    /\ \E u \in Targets : srv = [r \in Runs |-> IF r = 1 THEN Request(u) ELSE NoRequest]

ServerSpec == ServerInit /\ [][ServerNext]_vars

-----------------------------------------------------------------------------
(* Properties of the server's message stream *)

RECURSIVE SumDurations(_, _)
SumDurations(stages, n) ==
    IF n = 0 THEN 0
    ELSE SumDurations(stages, n - 1)
         + (IF Settled(stages[n]) THEN stages[n].durationMs ELSE 0)

\* The requests whose handler went past the 400 check.
Accepted(r) == srv[r].pc \notin {"none", "request", "rejected"}

\* C1 (as claimed): the messages of a run hold exactly one message with
\* isComplete = true; it has type "final" and is the last one written, and
\* every earlier message has type "update" and isComplete = false.
C1_ExactlyOneTerminal ==
    \A r \in Runs :
        LET out == srv[r].out IN
        /\ \A k \in 1..Len(out) :
              IF out[k].data.isComplete
              THEN k = Len(out) /\ out[k].type = "final"
              ELSE out[k].type = "update"
        /\ (Accepted(r) /\ srv[r].ended) =>
              (Len(out) >= 1 /\ out[Len(out)].data.isComplete)

\* C2 (as claimed): in every message written, totalResponseTime is the sum of
\* durationMs over the stages that are success or error in that message.
C2_TotalIsSumOfDurations ==
    \A r \in Runs : \A k \in 1..Len(srv[r].out) :
        srv[r].out[k].data.totalResponseTime
            = SumDurations(srv[r].out[k].data.stages, NStages)

\* C3 (as claimed): an accepted request never hangs: until its response has
\* ended, some step of its handler can still be taken.
C3_NeverHangs ==
    \A r \in Runs : Accepted(r) => (srv[r].ended \/ ENABLED SrvStep(r))

\* C4: once a message shows a stage with status error, every later stage is
\* idle in that message and in every later message of the run.
C4_ErrorStopsRun ==
    \A r \in Runs : \A k \in 1..Len(srv[r].out) : \A i \in 1..NStages :
        srv[r].out[k].data.stages[i].status = "error" =>
            \A k2 \in k..Len(srv[r].out) : \A j \in (i + 1)..NStages :
                srv[r].out[k2].data.stages[j].status = "idle"

\* A run has written that its first-byte stage failed.
C4_Witness ==
    \E r \in Runs : \E k \in 1..Len(srv[r].out) :
        /\ srv[r].out[k].data.stages[4].status = "error"
        /\ srv[r].out[k].data.stages[5].status = "idle"
        /\ srv[r].ended

\* C5: in every message the five stages are in the order dns, connection,
\* tls, firstByte, download, and a stage is other than idle only if every
\* earlier stage is success.
C5_StagesInOrder ==
    \A r \in Runs : \A k \in 1..Len(srv[r].out) :
        LET stages == srv[r].out[k].data.stages IN
        /\ [i \in 1..NStages |-> stages[i].id] = StageIds
        /\ \A i \in 1..NStages :
              stages[i].status # "idle" =>
                  \A j \in 1..(i - 1) : stages[j].status = "success"

\* A run has written that its download failed after the first byte came.
C5_Witness ==
    \E r \in Runs : \E k \in 1..Len(srv[r].out) :
        /\ srv[r].out[k].data.stages[5].status = "error"
        /\ srv[r].out[k].data.stages[4].status = "success"
        /\ srv[r].out[k].data.stages[3].errorDetails = <<"Skipped (HTTP)">>

-----------------------------------------------------------------------------
(* Properties of the dashboard *)

\* A run is in progress and no terminal state has been shown.
Running == ~ui.isComplete /\ \E r \in Runs : Live(r)

\* Run r has applied a terminal message.
SawTerminal(r) == \E k \in 1..cl[r].pos : IsTerminal(srv[r].out[k])

\* The current run has applied a terminal snapshot of its stream and the
\* check was not stopped by the user.
Completed ==
    /\ ui.isComplete /\ ~ui.isStopped
    /\ nruns >= 1 /\ SawTerminal(nruns)

\* The user has stopped the current run, whose activation is gone.
Cancelled == ui.isStopped /\ nruns >= 1 /\ cl[nruns].pc = "cancelled"

\* C6 (as claimed): once the user has stopped the current run, of which the
\* dashboard had shown the DNS stage succeed, the server's probe for it starts
\* no further stage: no stage of it leaves idle.
C6_StopHaltsProbe ==
    [][\A r \in Runs :
          (Cancelled /\ r = nruns /\ ui.stages[1].status = "success") =>
              \A i \in 1..NStages :
                  srv[r].results.stages[i].status = "idle" =>
                      srv'[r].results.stages[i].status = "idle"]_vars

\* C7: handleStopChecks called while a run is Running leaves isComplete
\* true, isSuccess false, errorMessage "Check stopped by user" and no
\* activation awaiting, and adds exactly one record, a failed one with that
\* message, to the stored history.
C7_StopWhileRunning ==
    [][(Running /\ HandleStopChecks) =>
          /\ ui'.isComplete
          /\ ~ui'.isSuccess
          /\ ui'.errorMessage = StoppedByUser
          /\ \A r \in Runs : ~Live(r)'
          /\ Len(storage') = Len(storage) + 1
          /\ Tail(storage') = storage
          /\ ~storage'[1].success
          /\ storage'[1].errorMessage = StoppedByUser]_vars

\* The check was stopped while the connection stage was loading: the stage is
\* still loading and the one record of the history is the cancellation.
C7_Witness ==
    /\ ui.isStopped /\ ui.isComplete /\ ~ui.isSuccess
    /\ ui.errorMessage = StoppedByUser
    /\ ui.stages[2].status = "loading"
    /\ Len(storage) = 1
    /\ storage[1].errorMessage = StoppedByUser
    /\ nstops = 1

C10_SupersededRunIsSilent ==
    [][\A r \in Runs :
          (r < nruns /\ Live(r) /\ ~SawTerminal(r)) =>
              /\ cl'[r].pos = cl[r].pos
              /\ cl'[r].pc # "done"]_vars

-----------------------------------------------------------------------------
(* Properties of the stream of one run *)

\* The stages whose status differs between two snapshots.
ChangedStages(a, b) ==
    {i \in 1..NStages : a.stages[i].status # b.stages[i].status}

\* C11 (as claimed): between any two consecutive messages of a run exactly one
\* stage's status differs.
C11_OneTransitionPerMessage ==
    \A r \in Runs : \A k \in 1..(Len(srv[r].out) - 1) :
        Cardinality(ChangedStages(srv[r].out[k].data, srv[r].out[k + 1].data)) = 1

StatusRank(status) ==
    CASE status = "idle" -> 0
      [] status = "loading" -> 1
      [] OTHER -> 2

\* C14: across the messages of a run no stage's status regresses: a stage
\* that is success or error is never idle or loading in a later message, a
\* stage that is loading is never idle in a later one.
C14_StatusNeverRegresses ==
    \A r \in Runs : \A k \in 1..(Len(srv[r].out) - 1) : \A i \in 1..NStages :
        StatusRank(srv[r].out[k].data.stages[i].status)
            <= StatusRank(srv[r].out[k + 1].data.stages[i].status)

\* A run has written the first-byte stage loading after three settled stages.
C14_Witness ==
    \E r \in Runs : \E k \in 2..Len(srv[r].out) :
        /\ srv[r].out[k].data.stages[4].status = "loading"
        /\ srv[r].out[k - 1].data.stages[4].status = "idle"
        /\ \A i \in 1..3 : srv[r].out[k].data.stages[i].status = "success"

\* A text without a character.
EmptyText(msg) == \A i \in 1..Len(msg) : msg[i] = ""

\* C16: in every message of a run errorMessage is non-empty exactly when
\* isComplete is true and isSuccess is false: it is empty in every message
\* that is not terminal and in the terminal message of a successful run.
C16_ErrorMessageIffFailed ==
    \A r \in Runs : \A k \in 1..Len(srv[r].out) :
        LET data == srv[r].out[k].data IN
        (~EmptyText(data.errorMessage)) <=> (data.isComplete /\ ~data.isSuccess)

\* The GET request of a run failed with an error without a message, and the
\* final message says "Request failed".
C16_Witness ==
    \E r \in Runs : \E k \in 1..Len(srv[r].out) :
        /\ srv[r].out[k].data.isComplete
        /\ ~srv[r].out[k].data.isSuccess
        /\ srv[r].out[k].data.errorMessage = <<"Request failed">>
        /\ \E j \in 1..(k - 1) : EmptyText(srv[r].out[j].data.errorMessage)

\* The scheme of the target of request r, as the URL parser reads it.
Scheme(r) ==
    IF HasProtocol(srv[r].processedUrl) THEN Lower(srv[r].processedUrl[1])
    ELSE "none"

\* C18: for a target whose scheme is http the TLS stage is never loading and
\* never error; where it is success it has durationMs = 0 and errorDetails
\* "Skipped (HTTP)"; the message that first shows it success is followed by
\* one with the first-byte stage loading; and the total of the terminal
\* message is the sum of the durations of the other four stages.
C18_HttpSkipsTls ==
    \A r \in Runs : \A k \in 1..Len(srv[r].out) :
        LET out == srv[r].out
            tls == out[k].data.stages[3]
        IN  Scheme(r) = "http" =>
              /\ tls.status \in {"idle", "success"}
              /\ tls.status = "success" =>
                    /\ tls.durationMs = 0
                    /\ tls.errorDetails = <<"Skipped (HTTP)">>
                    /\ out[k].data.stages[4].status = "idle" =>
                          /\ k < Len(out)
                          /\ out[k + 1].data.stages[4].status = "loading"
              /\ out[k].data.isComplete =>
                    out[k].data.totalResponseTime
                        = SumDurations(out[k].data.stages, 2)
                          + (SumDurations(out[k].data.stages, NStages)
                             - SumDurations(out[k].data.stages, 3))

\* The run of HTTP://example.com succeeded with its TLS stage skipped.
C18_Witness ==
    \E r \in Runs :
        /\ srv[r].url = <<"HTTP", "://", "example.com">>
        /\ srv[r].ended
        /\ srv[r].results.isSuccess
        /\ srv[r].results.totalResponseTime > 0
        /\ srv[r].results.stages[3].errorDetails = <<"Skipped (HTTP)">>

C20_InvalidUrlFailsDns ==
    \A r \in Runs :
        LET out == srv[r].out IN
        (Len(out) >= 1 /\ ~ParsesAsUrl(srv[r].processedUrl)) =>
            /\ \A k \in 1..Len(out) :
                  /\ out[k].data.stages[1].status # "success"
                  /\ \A i \in 2..NStages : out[k].data.stages[i].status = "idle"
            /\ srv[r].ended =>
                  /\ out[Len(out)].data.stages[1].status = "error"
                  /\ out[Len(out)].data.stages[1].errorDetails = <<"Invalid domain">>
                  /\ out[Len(out)].data.isComplete
                  /\ ~out[Len(out)].data.isSuccess

-----------------------------------------------------------------------------
(* Properties of the dashboard's totals *)

\* A step that leaves the run the dashboard shows the same.
SameRun == nruns' = nruns

\* C17: totalResponseTime never decreases from one message of a run to the
\* next, and the total the dashboard shows never decreases while it shows
\* the same run, a step of handleStopChecks included.
C17_TotalNeverDecreases ==
    [][/\ SameRun => ui'.totalResponseTime >= ui.totalResponseTime
       /\ \A r \in Runs : \A k \in 1..(Len(srv'[r].out) - 1) :
             srv'[r].out[k].data.totalResponseTime
                 <= srv'[r].out[k + 1].data.totalResponseTime]_vars

\* The dashboard was stopped while it showed a run whose terminal message,
\* with a total above 0, it had applied.
C17_Witness ==
    /\ ui.isStopped
    /\ ui.isSuccess
    /\ ui.totalResponseTime > 0
    /\ storage # <<>>
    /\ storage[1].errorMessage = StoppedByUser
    /\ storage[1].responseTime = ui.totalResponseTime

-----------------------------------------------------------------------------
(* Properties of the stream consumer *)

\* The lines 1..n in the order the server wrote them.
LinesUpTo(n) == [k \in 1..n |-> k]

\* What the consumer has applied is what it has received whole: the lines
\* that end within the bytes read so far, once each, in order.
AppliedWhatWasRead ==
    \A r \in Runs : cl[r].applied = LinesUpTo(cl[r].pos \div BytesPerLine)

\* C13 (as claimed): however the body is split into chunks, the consumer
\* applies the lines it has received whole, once each and in order, and when
\* its activation is over after the server ended the response it has applied
\* every line the server wrote.
C13_ConsumerAppliesEveryLine ==
    /\ AppliedWhatWasRead
    /\ \A r \in Runs :
          (srv[r].ended /\ cl[r].pc \in {"done", "cancelled"}) =>
              cl[r].applied = LinesUpTo(Len(srv[r].out))

-----------------------------------------------------------------------------
(* Properties of isSuccess *)

AllSuccess(stages) == \A i \in 1..NStages : stages[i].status = "success"

\* C15 (as claimed): isSuccess is true only with all five stages success and
\* no cancellation, in every message the server writes and in every state
\* the dashboard shows.
C15_SuccessMeansAllStagesSucceeded ==
    /\ \A r \in Runs : \A k \in 1..Len(srv[r].out) :
          srv[r].out[k].data.isSuccess => AllSuccess(srv[r].out[k].data.stages)
    /\ ui.isSuccess => (AllSuccess(ui.stages) /\ ~ui.isStopped)

-----------------------------------------------------------------------------
(* Properties of the failure paths *)

\* C21 (as claimed): for a target whose host name cannot be resolved no
\* message shows the DNS stage success or a later stage other than idle, and
\* the run ends with the DNS stage error and isSuccess = false.
C21_UnresolvableFailsDns ==
    \A r \in Runs :
        LET out == srv[r].out IN
        (/\ Len(out) >= 1
         /\ ParsesAsUrl(srv[r].processedUrl)
         /\ ~Resolvable(srv[r].processedUrl)) =>
            /\ \A k \in 1..Len(out) :
                  /\ out[k].data.stages[1].status # "success"
                  /\ \A i \in 2..NStages : out[k].data.stages[i].status = "idle"
            /\ srv[r].ended =>
                  /\ out[Len(out)].data.stages[1].status = "error"
                  /\ out[Len(out)].data.isComplete
                  /\ ~out[Len(out)].data.isSuccess

\* The last message request r has written.
LastMessage(s) == s.out[Len(s.out)]

\* C22: when the GET request times out before a byte of the response body
\* has come, the handler writes a final message in which the first-byte stage
\* is error with "Request timed out", the download stage is idle, isComplete
\* is true and isSuccess is false, and ends the response.
C22_FirstByteTimeout ==
    [][\A r \in Runs : \A d \in Durations :
          (/\ ~srv[r].receivedFirstByte
           /\ SrvRequestFail(r, d, TimeoutError("Request timed out")))
          => /\ srv'[r].ended
             /\ Len(srv'[r].out) > Len(srv[r].out)
             /\ LastMessage(srv'[r]).type = "final"
             /\ LastMessage(srv'[r]).data.stages[4].status = "error"
             /\ LastMessage(srv'[r]).data.stages[4].errorDetails
                   = <<"Request timed out">>
             /\ LastMessage(srv'[r]).data.errorMessage = <<"Request timed out">>
             /\ LastMessage(srv'[r]).data.stages[5].status = "idle"
             /\ LastMessage(srv'[r]).data.isComplete
             /\ ~LastMessage(srv'[r]).data.isSuccess]_vars

\* A run ended with its first-byte stage timed out after the response head
\* had come.
C22_Witness ==
    \E r \in Runs :
        /\ srv[r].ended
        /\ srv[r].pc = "done"
        /\ ~srv[r].receivedFirstByte
        /\ srv[r].sinceFb > 0
        /\ srv[r].results.stages[4].status = "error"
        /\ srv[r].results.stages[4].errorDetails = <<"Request timed out">>
        /\ srv[r].results.stages[5].status = "idle"

\* C23: when the response ends and no data came, the handler writes an
\* update with the first-byte stage success (its time is the time up to the
\* end) and the download stage loading, then a final message with the
\* download stage success and isSuccess = true.
C23_EndWithoutData ==
    [][\A r \in Runs : \A d \in Durations :
          (~srv[r].receivedFirstByte /\ SrvEnd(r, d))
          => LET n == Len(srv[r].out)
                 out == srv'[r].out
             IN  /\ Len(out) >= n + 2
                 /\ out[n + 1].type = "update"
                 /\ out[n + 1].data.stages[4].status = "success"
                 /\ out[n + 1].data.stages[4].durationMs = srv[r].sinceFb + d
                 /\ out[n + 1].data.stages[5].status = "loading"
                 /\ out[n + 2].type = "final"
                 /\ out[n + 2].data.stages[4].status = "success"
                 /\ out[n + 2].data.stages[5].status = "success"
                 /\ out[n + 2].data.isComplete
                 /\ out[n + 2].data.isSuccess
                 /\ srv'[r].ended]_vars

\* A run succeeded with a first-byte time above 0 and a download time of 0,
\* as when the first-byte stage is settled by the 'end' handler.
C23_Witness ==
    \E r \in Runs :
        /\ srv[r].ended
        /\ srv[r].results.isSuccess
        /\ srv[r].results.stages[4].status = "success"
        /\ srv[r].results.stages[4].durationMs > 0
        /\ srv[r].results.stages[5].durationMs = 0

-----------------------------------------------------------------------------
(* Properties of Stop and of the hand-over of the result *)

\* C24: a step of handleStopChecks leaves every stage record (status,
\* timestamp, durationMs, errorDetails) and totalResponseTime as they were.
C24_StopKeepsStages ==
    [][HandleStopChecks =>
          /\ ui'.stages = ui.stages
          /\ ui'.totalResponseTime = ui.totalResponseTime]_vars

\* The check was stopped while the TLS stage was loading, after two stages
\* had succeeded: the stage is still loading.
C24_Witness ==
    /\ ui.isStopped
    /\ ui.stages[1].status = "success" /\ ui.stages[1].durationMs > 0
    /\ ui.stages[2].status = "success"
    /\ ui.stages[3].status = "loading"
    /\ ui.stages[4].status = "idle"

\* The runs that have handed a result over: they applied a terminal message,
\* or their fetch failed.
HandedOver == {r \in Runs : SawTerminal(r) \/ (cl[r].pc = "done" /\ cl[r].pos = 0)}

\* C28 (as claimed): without a Stop, every run that has handed its result
\* over has called onCheckComplete once and saved one record: Home's history
\* and the stored history have one entry for each such run.
C28_OneResultPerRun ==
    nstops = 0 =>
        /\ Len(storage) = Cardinality(HandedOver)
        /\ Len(home.checkHistory) = Cardinality(HandedOver)

\* C29: once the check has been stopped, no step of the same run changes the
\* dashboard's state, Home's state or the stored history.
C29_NothingAppliedAfterStop ==
    [][(ui.isStopped /\ SameRun) => UNCHANGED <<ui, home, storage>>]_vars

\* The check was stopped and the server has since written messages, up to
\* the final one, that the stopped run has not applied.
C29_Witness ==
    /\ ui.isStopped
    /\ ~ui.isSuccess
    /\ \E r \in Runs :
          /\ r = nruns
          /\ cl[r].pc = "cancelled"
          /\ srv[r].ended
          /\ srv[r].results.isSuccess
          /\ Len(srv[r].out) > cl[r].pos
          /\ cl[r].pos >= 1

-----------------------------------------------------------------------------
(* Properties of the stage records *)

\* C25: in every message a stage has a timestamp and a durationMs exactly
\* when its status is success or error, and a durationMs is never negative.
C25_TimestampAndDurationIffSettled ==
    \A r \in Runs : \A k \in 1..Len(srv[r].out) : \A i \in 1..NStages :
        LET st == srv[r].out[k].data.stages[i] IN
        /\ st.timestamp <=> Settled(st)
        /\ (st.durationMs # NoDuration) <=> Settled(st)
        /\ Settled(st) => st.durationMs >= 0

\* A run failed in its download stage: four stages succeeded and have their
\* times, the download has the time up to the failure.
C25_Witness ==
    \E r \in Runs :
        /\ srv[r].ended
        /\ \A i \in 1..4 : srv[r].results.stages[i].status = "success"
        /\ srv[r].results.stages[5].status = "error"
        /\ srv[r].results.stages[5].timestamp
        /\ srv[r].results.stages[5].durationMs > 0
        /\ srv[r].results.stages[4].durationMs > 0

\* C26 (as claimed): in every message a stage has an errorDetails only when
\* its status is error.
C26_ErrorDetailsOnlyOnError ==
    \A r \in Runs : \A k \in 1..Len(srv[r].out) : \A i \in 1..NStages :
        LET st == srv[r].out[k].data.stages[i] IN
        st.errorDetails # <<>> => st.status = "error"

\* C26 (amended): in every message a stage has an errorDetails only when its
\* status is error, or when it is the TLS stage of a target that is not
\* probed over https, which is success with "Skipped (HTTP)".
C26_ErrorDetailsOnErrorOrSkip ==
    \A r \in Runs : \A k \in 1..Len(srv[r].out) : \A i \in 1..NStages :
        LET st == srv[r].out[k].data.stages[i] IN
        st.errorDetails # <<>> =>
            \/ st.status = "error"
            \/ /\ i = 3
               /\ ~Secure(srv[r])
               /\ st.status = "success"
               /\ st.errorDetails = <<"Skipped (HTTP)">>

\* The run of an http target failed in its first-byte stage: one stage has
\* the skip note, another the error.
C26_Witness ==
    \E r \in Runs :
        /\ srv[r].ended
        /\ srv[r].results.stages[3].status = "success"
        /\ srv[r].results.stages[3].errorDetails = <<"Skipped (HTTP)">>
        /\ srv[r].results.stages[4].status = "error"
        /\ srv[r].results.stages[4].errorDetails # <<>>

\* C27: whatever status code a response carries, the handler reacts to it as
\* to a 200: from every state in which it awaits a response, the state after
\* the response is the same but for the recorded code; and a run that ended
\* without a failed stage is a success, whatever the code.
C27_StatusCodeIsNoFailure ==
    \A r \in Runs : \A d \in Durations : \A code \in StatusCodes :
        LET s == srv[r] IN
        /\ s.pc = "conn" =>
              OnHeadResponse(s, d, code)
                  = [OnHeadResponse(s, d, 200) EXCEPT !.statusCode = code]
        /\ s.pc = "tls" =>
              OnTlsResponse(s, d, code)
                  = [OnTlsResponse(s, d, 200) EXCEPT !.statusCode = code]
        /\ s.pc = "fb" =>
              OnGetResponse(s, d, code)
                  = [OnGetResponse(s, d, 200) EXCEPT !.statusCode = code]
        /\ (s.ended /\ s.statusCode = code
               /\ \A i \in 1..NStages : s.results.stages[i].status # "error")
              => s.results.isSuccess /\ AllSuccess(s.results.stages)

\* A run whose GET request was answered with 500 succeeded.
C27_Witness ==
    \E r \in Runs :
        /\ srv[r].ended
        /\ srv[r].statusCode = 500
        /\ srv[r].results.isSuccess
        /\ AllSuccess(srv[r].results.stages)

-----------------------------------------------------------------------------
(* Termination of a run on the client *)

\* C30 (as claimed): every check that was started eventually shows
\* isComplete = true.
C30_RunCompletesOnClient == (nruns >= 1) ~> ui.isComplete

-----------------------------------------------------------------------------
(* Properties of Home after a check *)

\* C31 (as claimed): after a check was ended by Stop, Home's isChecking
\* eventually becomes false again, which re-enables the URL form and shows
\* the Recheck button.
C31_StopReturnsToIdle == (ui.isStopped /\ home.isChecking) ~> ~home.isChecking

-----------------------------------------------------------------------------
(* Properties of the terminal message *)

\* The sum of the durationMs of the first n stages that have one.
RECURSIVE SumKnownDurations(_, _)
SumKnownDurations(stages, n) ==
    IF n = 0 THEN 0
    ELSE SumKnownDurations(stages, n - 1)
         + (IF stages[n].durationMs # NoDuration THEN stages[n].durationMs ELSE 0)

\* C32: in every message written with isComplete = true, whether the run
\* succeeded or a stage failed, totalResponseTime is the sum of the
\* durationMs of the stages that have one.
C32_TerminalTotalIsSum ==
    \A r \in Runs : \A k \in 1..Len(srv[r].out) :
        srv[r].out[k].data.isComplete =>
            srv[r].out[k].data.totalResponseTime
                = SumKnownDurations(srv[r].out[k].data.stages, NStages)

\* A terminal message of a successful check of an https target whose DNS,
\* TLS and download stages each took time.
C32_Witness ==
    \E r \in Runs : \E k \in 1..Len(srv[r].out) :
        LET m == srv[r].out[k].data IN
        /\ m.isComplete
        /\ m.isSuccess
        /\ m.stages[1].durationMs > 0
        /\ m.stages[3].durationMs > 0
        /\ m.stages[5].durationMs > 0
        /\ m.totalResponseTime >= 3

\* C33: when the GET request fails or times out after the first byte of the
\* body has come (first byte success, download loading), the handler writes
\* a final message in which the download stage is error with the cause, the
\* first-byte stage is as it was (success, with its duration), isComplete is
\* true and isSuccess is false, and ends the response.
C33_FailureAfterFirstByte ==
    [][\A r \in Runs : \A d \in Durations : \A e \in AllErrors :
          (/\ srv[r].receivedFirstByte
           /\ SrvRequestFail(r, d, e))
          => /\ srv[r].results.stages[4].status = "success"
             /\ srv[r].results.stages[5].status = "loading"
             /\ srv'[r].ended
             /\ Len(srv'[r].out) > Len(srv[r].out)
             /\ LastMessage(srv'[r]).type = "final"
             /\ LastMessage(srv'[r]).data.stages[5].status = "error"
             /\ LastMessage(srv'[r]).data.stages[5].errorDetails
                   = RequestErrorMsg(e)
             /\ LastMessage(srv'[r]).data.errorMessage = RequestErrorMsg(e)
             /\ LastMessage(srv'[r]).data.stages[4] = srv[r].results.stages[4]
             /\ LastMessage(srv'[r]).data.isComplete
             /\ ~LastMessage(srv'[r]).data.isSuccess]_vars

\* A run ended by a time-out of the request after its first byte had come.
C33_Witness ==
    \E r \in Runs :
        /\ srv[r].ended
        /\ srv[r].pc = "done"
        /\ srv[r].receivedFirstByte
        /\ srv[r].results.stages[4].status = "success"
        /\ srv[r].results.stages[5].status = "error"
        /\ srv[r].results.stages[5].errorDetails = <<"Request timed out">>
        /\ ~srv[r].results.isSuccess

\* C34 (as claimed): when the HEAD request of the connection stage runs into
\* its time-out (the 'timeout' handler, or an error with a time-out code),
\* the connection stage's errorDetails and the run's errorMessage are
\* "Connection timed out"; after any other error that has a message they are
\* "Connection failed: " and the first line of that message.
C34_ConnectionTimeoutClassified ==
    [][\A r \in Runs : \A d \in Durations : \A e \in AllErrors :
          (SrvConnFail(r, d, e) /\ e.message # <<>>)
          => LET m == LastMessage(srv'[r]).data
                 text == IF \/ e = TimeoutError("Connection timed out")
                            \/ e.code \in {"ECONNABORTED", "ETIMEDOUT"}
                         THEN <<"Connection timed out">>
                         ELSE <<"Connection failed: ", FirstLine(e)>>
             IN  /\ m.stages[2].status = "error"
                 /\ m.stages[2].errorDetails = text
                 /\ m.errorMessage = text]_vars

-----------------------------------------------------------------------------
(* Properties of the reading of the stream *)

\* The lines of a chunk that are the text of a message.
WellFormedLines(lines) == SelectSeq(lines, LAMBDA m : JsonParses(m) /\ HasData(m))

\* C35: when a chunk holds a line that is not a well-formed message, the read
\* of that chunk does not end the run and leaves the state as the well-formed
\* lines of the chunk make it: unchanged if there is none, otherwise what the
\* last of them says, with one result handed over and saved per terminal
\* line.
C35_MalformedLineIsSkipped ==
    [][\A n \in 1..MaxLines :
          LET lines == SubSeq(srv[1].out, cl[1].pos + 1, cl[1].pos + n)
              good == WellFormedLines(lines)
              terminal == {k \in DOMAIN good : IsTerminal(good[k])}
          IN  (ReadChunk(1, n) /\ Len(good) < n)
              => /\ cl'[1].pc = "reading"
                 /\ good = <<>> => UNCHANGED <<ui, home, storage>>
                 /\ good # <<>> => ui' = ApplyMessage(ui, good[Len(good)])
                 /\ terminal = {} => UNCHANGED <<home, storage>>
                 /\ Len(storage') = Len(storage) + Cardinality(terminal)
                 /\ Len(home'.checkHistory)
                       = Len(home.checkHistory) + Cardinality(terminal)]_vars

\* A check whose stream began with a line that is not JSON, then a line
\* without data, then the update with the DNS stage success, which is what
\* the dashboard shows.
C35_Witness ==
    /\ Len(srv[1].out) = 3
    /\ srv[1].out[1] = InvalidLine
    /\ srv[1].out[2] = NoDataLine
    /\ srv[1].out[3] = Message("update", Succeed(NewResults, 1, 1))
    /\ cl[1].pos = 3
    /\ ui.stages[1].status = "success"
    /\ ~ui.isComplete

\* C36 (as claimed): when the request to the check server fails and the user
\* did not abort it, the dashboard ends with isComplete true, isSuccess false
\* and an error message, calls onCheckComplete(false, 0) and saves one failed
\* record with response time 0; when a pending request is aborted, the run
\* that made it calls no onCheckComplete and saves no such record.
C36_FetchFailureEndsRun ==
    [][\A r \in Runs :
          /\ FetchFail(r)
                => /\ ui'.isComplete
                   /\ ~ui'.isSuccess
                   /\ ~EmptyText(ui'.errorMessage)
                   /\ home' = handleCheckComplete(home, cl[r].url, FALSE, 0)
                   /\ Len(storage') = Len(storage) + 1
                   /\ ~storage'[1].success
                   /\ storage'[1].responseTime = 0
          /\ (cl[r].pc = "fetch" /\ cl'[r].pc = "cancelled")
                => /\ home'.checkHistory = home.checkHistory
                   /\ \A k \in DOMAIN storage' :
                         storage'[k].errorMessage = FailedToFetch
                            => k > Len(storage') - Len(storage)]_vars

-----------------------------------------------------------------------------
(* Properties of the client-driven dashboard *)

\* C37 (as claimed): when fetch and then axios.get fail before a byte was
\* received, the first-byte stage ends error and the download stage stays
\* idle; the download stage is never error while the first-byte stage is
\* loading.
C37_RealFirstByteFailure ==
    [][\A r \in Runs : \A d \in Durations : \A e \in RealErrors :
          (RealAxiosFail(r, d, e) /\ ~cl[r].progressed)
          => /\ ui'.stages[4].status = "error"
             /\ ui'.stages[5].status = "idle"
             /\ ~(ui'.stages[5].status = "error"
                    /\ ui'.stages[4].status = "loading")]_vars

\* C38: when the ping of the third-party host succeeds, the connection stage
\* ends success whether the HEAD request to the target resolves or rejects;
\* the connection stage becomes error only in the step in which the ping
\* fails.
C38_ConnectionFollowsPing ==
    [][/\ \A r \in Runs : \A d \in Durations : \A siteOk \in BOOLEAN :
             RealPingOk(r, d, siteOk) => ui'.stages[2].status = "success"
       /\ \A r \in Runs : \A d \in Durations : \A e \in RealErrors :
             RealPingFail(r, d, e) => ui'.stages[2].status = "error"
       /\ (ui.stages[2].status # "error" /\ ui'.stages[2].status = "error")
             => \E r \in Runs : \E d \in Durations : \E e \in RealErrors :
                    RealPingFail(r, d, e)]_vars

\* A check right after its connection stage: the ping has succeeded, the
\* connection stage is success with its time and the GET is under way.
C38_Witness ==
    \E r \in Runs :
        /\ cl[r].pc = "get"
        /\ ui.stages[2].status = "success"
        /\ ui.stages[2].durationMs # NoDuration
        /\ ui.stages[4].status = "loading"

-----------------------------------------------------------------------------
(* Properties of the stored history *)

\* C39: the stored history holds at most HistoryLimit records, the newest
\* first, and they are the records saved last: a call puts its record first,
\* keeps the records that were there in their order, and drops only the
\* oldest one when the history was full.
C39_HistoryKeepsNewest ==
    /\ [](/\ Len(storage) <= HistoryLimit
          /\ Len(storage) = (IF SavedSoFar < HistoryLimit THEN SavedSoFar
                              ELSE HistoryLimit)
          /\ \A j \in 1..Len(storage) : storage[j].seq = SavedSoFar - j + 1)
    /\ [][\A url \in ClientUrls : \A success \in BOOLEAN :
             HistorySave(url, success)
             => /\ storage'[1] = SavedItem(SavedSoFar + 1, url, success)
                /\ Len(storage') = (IF Len(storage) < HistoryLimit
                                     THEN Len(storage) + 1 ELSE HistoryLimit)
                /\ \A j \in 2..Len(storage') : storage'[j] = storage[j - 1]]_vars

\* A full history after a save: the record just saved is first and the
\* oldest record that is left is the second oldest of before.
C39_Witness ==
    /\ nruns >= 1
    /\ Len(storage) = HistoryLimit
    /\ storage[1].seq = HistoryLimit + 1
    /\ storage[HistoryLimit].seq = 2

====
